---- MODULE Spec2Model ----
(***************************************************************************)
(* Configuration resolution of micropb-gen: the attribute bag Config with  *)
(* its merge (micropb-gen/src/config.rs), the typed accessors that parse   *)
(* raw string overrides, and the path-indexed store of bags with the       *)
(* root-to-leaf resolution that folds merge over the bags on a path.       *)
(***************************************************************************)
EXTENDS Integers, Sequences, FiniteSets, TLC

(***************************************************************************)
(* Option<T>: None is the empty tuple, Some(v) the one-element tuple.      *)
(***************************************************************************)
None == <<>>

Some(v) == <<v>>

IsSome(o) == o # None

Unwrap(o) == o[1]

(***************************************************************************)
(* The fields of Config, in the order of the config_decl! invocation.      *)
(***************************************************************************)
FieldOrder ==
    << "max_len", "max_bytes", "int_type", "field_attributes", "boxed",
       "vec_type", "string_type", "map_type", "no_hazzer",
       "custom_field", "rename_field",
       "enum_int_type", "type_attributes", "hazzer_attributes",
       "no_debug_derive",
       "skip" >>

Fields == { FieldOrder[i] : i \in 1..Len(FieldOrder) }

\* the fields declared with the [no_inherit] placeholder
NoInheritFields == { "custom_field", "rename_field" }

OverlayFields == Fields \ NoInheritFields

\* the fields declared with the [deref] placeholder: the setter takes &str
DerefFields ==
    { "field_attributes", "vec_type", "string_type", "map_type",
      "rename_field", "type_attributes", "hazzer_attributes" }

U32Fields == { "max_len", "max_bytes" }

IntTypeFields == { "int_type", "enum_int_type" }

BoolFields == { "boxed", "no_hazzer", "no_debug_derive", "skip" }

\* enum IntType
IntType == { "I8", "U8", "I16", "U16", "I32", "U32", "I64", "U64", "Isize", "Usize" }

\* enum CustomField { Type(String), Delegate(String) }
CustomFieldType(s) == [variant |-> "Type", raw |-> s]

CustomFieldDelegate(s) == [variant |-> "Delegate", raw |-> s]

(***************************************************************************)
(* Config::new(): Self::default(), every Option field None.                *)
(***************************************************************************)
NewSkipsFalse == [f \in Fields |-> IF f = "skip" THEN Some(FALSE) ELSE None]

New == [f \in Fields |-> None]

(***************************************************************************)
(* The setters: self.field = Some(val), every other field as it was.       *)
(***************************************************************************)
Set(conf, f, val) == [conf EXCEPT ![f] = Some(val)]

(***************************************************************************)
(* Config::merge.  The two @merge arms of config_decl!, then merge itself: *)
(* one arm per field, chosen by the field's placeholder.                   *)
(***************************************************************************)
MergeInheritKeepsSelf(selfv, otherv) ==
    IF IsSome(selfv) THEN selfv ELSE otherv

MergeInheritNeverAssigns(selfv, otherv) == selfv

MergeInheritUnlessBothSet(selfv, otherv) ==
    IF IsSome(selfv) /\ IsSome(otherv) THEN selfv ELSE otherv

MergeInherit(selfv, otherv) ==
    IF IsSome(otherv) THEN Some(Unwrap(otherv)) ELSE selfv

MergeNoInheritOverlays(selfv, otherv) ==
    IF IsSome(otherv) THEN otherv ELSE selfv

MergeNoInherit(selfv, otherv) == otherv

Merge(self, other) ==
    [f \in Fields |->
        IF f \in NoInheritFields
        THEN MergeNoInherit(self[f], other[f])
        ELSE MergeInherit(self[f], other[f])]

(***************************************************************************)
(* Raw override strings.  A String is modelled as the sequence of the      *)
(* tokens proc_macro2 lexes it into; syn::parse_str lexes the string and   *)
(* then parses the whole token stream as the requested syntax tree.        *)
(***************************************************************************)
Idents ==
    { "heapless", "Vec", "String", "Map", "TypeX", "TypeY", "not", "valid",
      "name", "rename", "foo", "u16", "derive", "Eq", "default" }

Literals == { "4" }

Tok(s, i) == IF i \in 1..Len(s) THEN s[i] ELSE "<eof>"

\* proc_macro2's lexer fails on unbalanced delimiters
RECURSIVE Balanced(_, _, _)
Balanced(s, i, stack) ==
    IF i > Len(s) THEN stack = <<>>
    ELSE IF s[i] \in {"[", "("} THEN Balanced(s, i + 1, <<s[i]>> \o stack)
    ELSE IF s[i] \in {"]", ")"}
         THEN /\ stack # <<>>
              /\ Head(stack) = (IF s[i] = "]" THEN "[" ELSE "(")
              /\ Balanced(s, i + 1, Tail(stack))
    ELSE Balanced(s, i + 1, stack)

Lexes(s) == Balanced(s, 1, <<>>)

(***************************************************************************)
(* Recursive descent of syn over the token sequence.  Each parser takes    *)
(* the position of its first token and yields the position after its last  *)
(* token, or 0 when the tokens do not match.                               *)
(***************************************************************************)
RECURSIVE SegmentsFrom(_, _), ArgumentsFrom(_, _), TypeFrom(_, _)

\* syn::Path: an optional leading ::, then segments separated by ::
PathFrom(s, i) == SegmentsFrom(s, IF Tok(s, i) = "::" THEN i + 1 ELSE i)

\* PathSegment: an identifier, then optional <...> arguments
SegmentsFrom(s, i) ==
    IF Tok(s, i) \notin Idents THEN 0
    ELSE LET k == IF Tok(s, i + 1) = "<" THEN ArgumentsFrom(s, i + 2)
                  ELSE IF Tok(s, i + 1) = "::" /\ Tok(s, i + 2) = "<"
                       THEN ArgumentsFrom(s, i + 3)
                  ELSE i + 1
         IN  IF k = 0 THEN 0
             ELSE IF Tok(s, k) = "::" THEN SegmentsFrom(s, k + 1)
             ELSE k

\* AngleBracketedGenericArguments, after the <: arguments separated by commas
ArgumentsFrom(s, i) ==
    IF Tok(s, i) = ">" THEN i + 1
    ELSE LET j == IF Tok(s, i) \in Literals THEN i + 1 ELSE TypeFrom(s, i)
         IN  IF j = 0 THEN 0
             ELSE IF Tok(s, j) = ">" THEN j + 1
             ELSE IF Tok(s, j) = "," THEN ArgumentsFrom(s, j + 1)
             ELSE 0

\* syn::Type: a slice [T], a qualified path <T>::..., or a path
TypeFrom(s, i) ==
    IF Tok(s, i) = "["
    THEN LET j == TypeFrom(s, i + 1)
         IN  IF j # 0 /\ Tok(s, j) = "]" THEN j + 1 ELSE 0
    ELSE IF Tok(s, i) = "<"
    THEN LET j == TypeFrom(s, i + 1)
         IN  IF j # 0 /\ Tok(s, j) = ">" /\ Tok(s, j + 1) = "::"
             THEN SegmentsFrom(s, j + 2) ELSE 0
    ELSE PathFrom(s, i)

Ok(kind, s) == [ok |-> TRUE, kind |-> kind, tokens |-> s]

Err == [ok |-> FALSE, kind |-> "Error", tokens |-> <<>>]

\* syn::parse_str::<TokenStream>
ParseTokenStream(s) == IF Lexes(s) THEN Ok("TokenStream", s) ELSE Err

\* syn::parse_str::<Ident>
ParseIdent(s) ==
    IF Lexes(s) /\ Len(s) = 1 /\ s[1] \in Idents THEN Ok("Ident", s) ELSE Err

\* syn::parse_str::<Path>
ParsePath(s) ==
    IF Lexes(s) /\ PathFrom(s, 1) = Len(s) + 1 THEN Ok("Path", s) ELSE Err

\* syn::parse_str::<Type>
ParseType(s) ==
    IF Lexes(s) /\ TypeFrom(s, 1) = Len(s) + 1 THEN Ok("Type", s) ELSE Err

(***************************************************************************)
(* What a call of a typed accessor ends in: it returns a value, or it      *)
(* panics (Result::unwrap on an Err, or todo!()).                          *)
(***************************************************************************)
Returned(v) == [kind |-> "returned", value |-> <<v>>]

Panicked(msg) == [kind |-> "panic", value |-> <<msg>>]

UnwrapErr == "called Result::unwrap on an Err value"

NotYetImplemented == "not yet implemented"

\* Result::unwrap of a parse result
UnwrapParse(r) == IF r.ok THEN Returned(r) ELSE Panicked(UnwrapErr)

\* as_deref().unwrap_or(d)
UnwrapOr(o, d) == IF IsSome(o) THEN Unwrap(o) ELSE d

field_attr_parsed(conf) ==
    UnwrapParse(ParseTokenStream(UnwrapOr(conf["field_attributes"], <<>>)))

type_attr_parsed(conf) ==
    UnwrapParse(ParseTokenStream(UnwrapOr(conf["type_attributes"], <<>>)))

hazzer_attr_parsed(conf) ==
    UnwrapParse(ParseTokenStream(UnwrapOr(conf["hazzer_attributes"], <<>>)))

rust_field_name(conf, name) ==
    UnwrapParse(ParseIdent(UnwrapOr(conf["rename_field"], <<name>>)))

\* Option::map(|t| syn::parse_str(t).unwrap())
MapParsePath(o) ==
    IF IsSome(o)
    THEN LET r == ParsePath(Unwrap(o))
         IN  IF r.ok THEN Returned(Some(r)) ELSE Panicked(UnwrapErr)
    ELSE Returned(None)

vec_type_parsed(conf) == MapParsePath(conf["vec_type"])

string_type_parsed(conf) == MapParsePath(conf["string_type"])

map_type_parsed(conf) == MapParsePath(conf["map_type"])

custom_field_parsed(conf) ==
    LET cf == conf["custom_field"]
    IN  IF IsSome(cf)
        THEN LET r == IF Unwrap(cf).variant = "Type"
                      THEN ParseType(Unwrap(cf).raw)
                      ELSE ParseIdent(Unwrap(cf).raw)
             IN  IF r.ok
                 THEN Returned(Some([variant |-> Unwrap(cf).variant, parsed |-> r]))
                 ELSE Panicked(UnwrapErr)
        ELSE Panicked(NotYetImplemented)

(***************************************************************************)
(* PathTree<Box<Config>> (crate::pathtree) and the resolution of a path.   *)
(* The trie is the function from the paths of its nodes to the bag each    *)
(* node owns, None for a node that is structural only.  The root is the    *)
(* empty path.                                                             *)
(***************************************************************************)
Prefix(p, i) == SubSeq(p, 1, i)

Prefixes(p) == { Prefix(p, i) : i \in 0..Len(p) }

EmptyTree == [q \in {<<>>} |-> None]

\* insert(path, bag): create or replace the bag at exactly that path
InsertMerges(t, p, bag) ==
    [q \in DOMAIN t \cup Prefixes(p) |->
        IF q = p
        THEN (IF q \in DOMAIN t /\ IsSome(t[q])
              THEN Some(Merge(Unwrap(t[q]), bag)) ELSE Some(bag))
        ELSE IF q \in DOMAIN t THEN t[q] ELSE None]

Insert(t, p, bag) ==
    [q \in DOMAIN t \cup Prefixes(p) |->
        IF q = p THEN Some(bag)
        ELSE IF q \in DOMAIN t THEN t[q] ELSE None]

\* the bag stored at exactly path p, None when there is no node or no bag
StoredAt(t, p) == IF p \in DOMAIN t THEN t[p] ELSE None

\* bags_on_path(path): walk from the root towards the leaf, collecting the
\* bag of every node on the way that carries one
RECURSIVE Walk(_, _, _)
Walk(t, p, i) ==
    IF i > Len(p) \/ Prefix(p, i) \notin DOMAIN t THEN <<>>
    ELSE (IF IsSome(t[Prefix(p, i)]) THEN <<Unwrap(t[Prefix(p, i)])>> ELSE <<>>)
         \o Walk(t, p, i + 1)

BagsOnPath(t, p) == Walk(t, p, 1)

\* acc = acc.merge(next), left to right
RECURSIVE FoldMerge(_, _)
FoldMerge(acc, bags) ==
    IF bags = <<>> THEN acc
    ELSE FoldMerge(Merge(acc, Head(bags)), Tail(bags))

\* resolve(path)
Resolve(t, p) == FoldMerge(New, BagsOnPath(t, p))

(***************************************************************************)
(* Bounds and inputs.                                                      *)
(***************************************************************************)
\* how many distinct fields the bags of one merge or one builder chain set
MaxAttrs == 1

\* how many nodes of the store carry a bag
MaxBags == 3

\* two values of each field's type, indexed 1 and 2
Val(f, i) ==
    IF f \in U32Fields THEN 8 * i
    ELSE IF f \in IntTypeFields THEN (IF i = 1 THEN "I8" ELSE "U32")
    ELSE IF f \in BoolFields THEN (i = 1)
    ELSE IF f = "custom_field"
         THEN (IF i = 1 THEN CustomFieldType(<<"TypeX">>)
               ELSE CustomFieldDelegate(<<"name">>))
    ELSE (IF i = 1 THEN <<"TypeX">> ELSE <<"TypeY">>)

\* the bag that sets field f to its g[f]-th value, and no field where g[f] = 0
ConfigOf(g) ==
    [f \in Fields |-> IF f \in DOMAIN g /\ g[f] # 0 THEN Some(Val(f, g[f])) ELSE None]

ConfigsOver(S) == { ConfigOf(g) : g \in [S -> 0..2] }

FieldSets == { S \in SUBSET Fields : Cardinality(S) <= MaxAttrs }

\* the paths of the schema's elements, and the paths a resolution may ask for
ElementPaths ==
    { <<"a">>, <<"a", "b">>, <<"a", "b", "c">>, <<"a", "d">>, <<"x", "y">> }

QueryPaths ==
    ElementPaths \cup { <<>>, <<"x">>, <<"x", "y", "z">> }

\* the bags the override rules register, built by the fluent setters
InsertBags ==
    { New,
      Set(New, "skip", TRUE),
      Set(New, "vec_type", <<"TypeX">>),
      Set(New, "vec_type", <<"TypeY">>),
      Set(Set(New, "rename_field", <<"foo">>),
          "custom_field", CustomFieldDelegate(<<"name">>)) }

\* raw strings an override rule may carry
RawStrings ==
    { <<"heapless", "::", "Vec">>,
      <<"Map">>,
      <<"not", "<", "<", "valid">>,
      <<"Vec", "<", "u16", ",", "4", ">">>,
      <<"#", "[", "derive", "(", "Eq", ")", "]">>,
      <<"#", "[">> }

CustomFields ==
    { CustomFieldType(r) : r \in RawStrings } \cup
    { CustomFieldDelegate(r) : r \in RawStrings }

\* the original field names rust_field_name is called with
FieldNames == { "name" }

SetFields(c) == { f \in Fields : IsSome(c[f]) }

NodesWithBag(t) == { q \in DOMAIN t : IsSome(t[q]) }

(***************************************************************************)
(* State.                                                                  *)
(***************************************************************************)
VARIABLES
    mergee, merger, third,  \* three bags: the operands of the merges
    ab,                     \* mergee after mergee.merge(&merger)
    abc,                    \* ... and after a further merge(&third)
    bc,                     \* merger after merger.merge(&third)
    a_bc,                   \* mergee after mergee.merge(&bc)
    tree,                   \* field_configs: the store of registered bags
    registered,             \* for each path, the bag of the latest insert there
    call,                   \* the latest call on the store: insert or resolve,
                            \* its path, the fields an insert dropped there
    resolved,               \* the Config the latest resolve returned
    conf,                   \* a Config whose typed fragments are requested
    outcome                 \* how the latest typed accessor call ended

vars ==
    << mergee, merger, third, ab, abc, bc, a_bc,
       tree, registered, call, resolved, conf, outcome >>

mergeVars == << mergee, merger, third, ab, abc, bc, a_bc >>

storeVars == << tree, registered, call, resolved >>

parseVars == << conf, outcome >>

MergeIdle ==
    /\ mergee = New /\ merger = New /\ third = New
    /\ ab = None /\ abc = None /\ bc = None /\ a_bc = None

StoreIdle ==
    /\ tree = EmptyTree
    /\ registered = [p \in ElementPaths |-> None]
    /\ call = None
    /\ resolved = None

ParseIdle == conf = New /\ outcome = None

(***************************************************************************)
(* Merging bags: (mergee.merge(merger)).merge(third) on one side,          *)
(* mergee.merge(merger.merge(third)) on the other.                         *)
(***************************************************************************)
InitMerge ==
    /\ \E S \in FieldSets :
          /\ mergee \in ConfigsOver(S)
          /\ merger \in ConfigsOver(S)
          /\ third \in ConfigsOver(S)
    /\ ab = None /\ abc = None /\ bc = None /\ a_bc = None
    /\ StoreIdle
    /\ ParseIdle

MergeAB ==
    /\ ab = None
    /\ ab' = Some(Merge(mergee, merger))
    /\ UNCHANGED << mergee, merger, third, abc, bc, a_bc, storeVars, parseVars >>

MergeABthenC ==
    /\ IsSome(ab) /\ abc = None
    /\ abc' = Some(Merge(Unwrap(ab), third))
    /\ UNCHANGED << mergee, merger, third, ab, bc, a_bc, storeVars, parseVars >>

MergeBC ==
    /\ IsSome(abc) /\ bc = None
    /\ bc' = Some(Merge(merger, third))
    /\ UNCHANGED << mergee, merger, third, ab, abc, a_bc, storeVars, parseVars >>

MergeAthenBC ==
    /\ IsSome(bc) /\ a_bc = None
    /\ a_bc' = Some(Merge(mergee, Unwrap(bc)))
    /\ UNCHANGED << mergee, merger, third, ab, abc, bc, storeVars, parseVars >>

NextMerge == MergeAB \/ MergeABthenC \/ MergeBC \/ MergeAthenBC

SpecMerge == InitMerge /\ [][NextMerge]_vars

(***************************************************************************)
(* The store: a registration phase of inserts, then resolutions.           *)
(***************************************************************************)
InitStore == MergeIdle /\ StoreIdle /\ ParseIdle

InsertBag(p, bag) ==
    /\ resolved = None
    /\ Cardinality(NodesWithBag(tree) \cup {p}) <= MaxBags
    /\ tree' = Insert(tree, p, bag)
    /\ registered' = [registered EXCEPT ![p] = Some(bag)]
    /\ call' = Some([fn |-> "insert", path |-> p,
                     dropped |-> IF IsSome(registered[p])
                                 THEN SetFields(Unwrap(registered[p])) \ SetFields(bag)
                                 ELSE {}])
    /\ UNCHANGED << resolved, mergeVars, parseVars >>

ResolvePath(p) ==
    /\ call' = Some([fn |-> "resolve", path |-> p, dropped |-> {}])
    /\ resolved' = Some(Resolve(tree, p))
    /\ UNCHANGED << tree, registered, mergeVars, parseVars >>

NextStore ==
    \/ \E p \in ElementPaths, bag \in InsertBags : InsertBag(p, bag)
    \/ \E p \in QueryPaths : ResolvePath(p)

Spec == InitStore /\ [][NextStore]_vars

(***************************************************************************)
(* Typed fragments: a Config is built by the setters, then the generator   *)
(* asks for its typed fragments.                                           *)
(***************************************************************************)
InitParse == MergeIdle /\ StoreIdle /\ ParseIdle

MaySet(f) == outcome = None /\ Cardinality(SetFields(conf) \cup {f}) <= MaxAttrs

SetDeref(f, raw) ==
    /\ MaySet(f)
    /\ conf' = Set(conf, f, raw)
    /\ UNCHANGED << outcome, mergeVars, storeVars >>

SetCustomField(cf) ==
    /\ MaySet("custom_field")
    /\ conf' = Set(conf, "custom_field", cf)
    /\ UNCHANGED << outcome, mergeVars, storeVars >>

Call(fn, f, result) ==
    /\ outcome' = Some([fn |-> fn, field |-> f, result |-> result])
    /\ UNCHANGED << conf, mergeVars, storeVars >>

CallFieldAttrParsed == Call("field_attr_parsed", "field_attributes", field_attr_parsed(conf))

CallTypeAttrParsed == Call("type_attr_parsed", "type_attributes", type_attr_parsed(conf))

CallHazzerAttrParsed == Call("hazzer_attr_parsed", "hazzer_attributes", hazzer_attr_parsed(conf))

CallRustFieldName(name) == Call("rust_field_name", "rename_field", rust_field_name(conf, name))

CallVecTypeParsed == Call("vec_type_parsed", "vec_type", vec_type_parsed(conf))

CallStringTypeParsed == Call("string_type_parsed", "string_type", string_type_parsed(conf))

CallMapTypeParsed == Call("map_type_parsed", "map_type", map_type_parsed(conf))

CallCustomFieldParsed == Call("custom_field_parsed", "custom_field", custom_field_parsed(conf))

NextParse ==
    \/ \E f \in DerefFields, raw \in RawStrings : SetDeref(f, raw)
    \/ \E cf \in CustomFields : SetCustomField(cf)
    \/ CallFieldAttrParsed
    \/ CallTypeAttrParsed
    \/ CallHazzerAttrParsed
    \/ \E name \in FieldNames : CallRustFieldName(name)
    \/ CallVecTypeParsed
    \/ CallStringTypeParsed
    \/ CallMapTypeParsed
    \/ CallCustomFieldParsed

SpecParse == InitParse /\ [][NextParse]_vars

(***************************************************************************)
(* Properties of merge, checked under SpecMerge.                           *)
(***************************************************************************)

\* C1: after mergee.merge(&merger), every overlay field of mergee holds
\* merger's value if merger's is present, and otherwise the value mergee
\* held before the merge.
MergeOverlay ==
    IsSome(ab) =>
        \A f \in OverlayFields :
            Unwrap(ab)[f] = (IF IsSome(merger[f]) THEN merger[f] ELSE mergee[f])

MergeOverlayWitness ==
    /\ IsSome(ab)
    /\ \E f \in OverlayFields :
          /\ IsSome(mergee[f]) /\ IsSome(merger[f])
          /\ mergee[f] # merger[f]
          /\ Unwrap(ab)[f] = merger[f]

\* C2: after mergee.merge(&merger), custom_field and rename_field of mergee
\* equal merger's, also when merger's is absent: mergee's value is erased.
MergeReplaceWholesale ==
    IsSome(ab) => \A f \in NoInheritFields : Unwrap(ab)[f] = merger[f]

MergeReplaceWholesaleWitness ==
    /\ IsSome(ab)
    /\ \E f \in NoInheritFields :
          /\ IsSome(mergee[f])
          /\ merger[f] = None
          /\ Unwrap(ab)[f] = None

\* C3: merge is associative: merging merger and then third into mergee gives,
\* field by field, the Config that merging (merger merged with third) into
\* mergee gives.
MergeAssociative ==
    (IsSome(abc) /\ IsSome(a_bc)) =>
        \A f \in Fields : Unwrap(abc)[f] = Unwrap(a_bc)[f]

MergeAssociativeWitness ==
    /\ IsSome(abc) /\ IsSome(a_bc)
    /\ \E f \in Fields :
          /\ IsSome(mergee[f]) /\ IsSome(merger[f]) /\ IsSome(third[f])
          /\ merger[f] # third[f]
          /\ Unwrap(abc)[f] = third[f]

(***************************************************************************)
(* Properties of the store and of resolution, checked under Spec.          *)
(***************************************************************************)
Resolving == IsSome(call) /\ Unwrap(call).fn = "resolve"

Inserting == IsSome(call) /\ Unwrap(call).fn = "insert"

QueryPath == Unwrap(call).path

Resolved == Unwrap(resolved)

\* the bag of the latest insert at path q, None if there was none
RegisteredAt(q) == IF q \in DOMAIN registered THEN registered[q] ELSE None

\* the places along p, root first, whose registered bag sets field f
Setters(p, f) ==
    { i \in 1..Len(p) :
        /\ IsSome(RegisteredAt(Prefix(p, i)))
        /\ IsSome(Unwrap(RegisteredAt(Prefix(p, i)))[f]) }

ValueAt(p, i, f) == Unwrap(RegisteredAt(Prefix(p, i)))[f]

Largest(S) == CHOOSE i \in S : \A j \in S : j <= i

Smallest(S) == CHOOSE i \in S : \A j \in S : i <= j

\* merge folded over the registered bags at the prefixes of p, from place i on
RECURSIVE FoldRegistered(_, _, _)
FoldRegistered(acc, p, i) ==
    IF i > Len(p) THEN acc
    ELSE FoldRegistered(
            IF IsSome(RegisteredAt(Prefix(p, i)))
            THEN Merge(acc, Unwrap(RegisteredAt(Prefix(p, i))))
            ELSE acc,
            p, i + 1)

\* C4: resolve(p) is the left fold of merge, from Config::new(), over the
\* bags registered at the prefixes of p in root-to-leaf order; so an overlay
\* field resolves to the value of the deepest bag on the path that sets it:
\* an ancestor's value is inherited, and a descendant's value wins.
ResolveIsRootToLeafFold ==
    Resolving =>
        /\ Resolved = FoldRegistered(New, QueryPath, 1)
        /\ \A f \in OverlayFields :
              Setters(QueryPath, f) # {} =>
                  Resolved[f] = ValueAt(QueryPath, Largest(Setters(QueryPath, f)), f)

ResolveIsRootToLeafFoldWitness ==
    /\ Resolving
    /\ \E f \in OverlayFields :
          /\ Cardinality(Setters(QueryPath, f)) >= 2
          /\ ValueAt(QueryPath, Smallest(Setters(QueryPath, f)), f)
                # ValueAt(QueryPath, Largest(Setters(QueryPath, f)), f)
          /\ Resolved[f] = ValueAt(QueryPath, Largest(Setters(QueryPath, f)), f)

\* C5: custom_field and rename_field never propagate down the hierarchy:
\* resolve(p) has one of them present only if the bag registered at exactly
\* p sets it.
NoInheritNeverPropagates ==
    Resolving =>
        \A f \in NoInheritFields :
            IsSome(Resolved[f]) =>
                /\ IsSome(StoredAt(tree, QueryPath))
                /\ IsSome(Unwrap(StoredAt(tree, QueryPath))[f])

RECURSIVE Reverse(_)
Reverse(seq) == IF seq = <<>> THEN <<>> ELSE Reverse(Tail(seq)) \o <<Head(seq)>>

\* the bags on the resolved path folded leaf to root
ResolvedInReverse == FoldMerge(New, Reverse(BagsOnPath(tree, QueryPath)))

\* C6 as stated: whenever two bags on the resolved path set the same overlay
\* field to different values, folding the bags leaf to root gives a Config
\* different from the root-to-leaf result.
ReversedFoldDiffers ==
    Resolving =>
        ((\E f \in OverlayFields : \E i, j \in Setters(QueryPath, f) :
              ValueAt(QueryPath, i, f) # ValueAt(QueryPath, j, f))
         => ResolvedInReverse # Resolved)

\* C6 as amended: whenever, for some overlay field, the root-most and the
\* leaf-most of the bags on the resolved path that set it give it different
\* values, folding the bags leaf to root gives a Config different from the
\* root-to-leaf result.
ReversedFoldDiffersAtEnds ==
    Resolving =>
        ((\E f \in OverlayFields :
              /\ Setters(QueryPath, f) # {}
              /\ ValueAt(QueryPath, Smallest(Setters(QueryPath, f)), f)
                    # ValueAt(QueryPath, Largest(Setters(QueryPath, f)), f))
         => ResolvedInReverse # Resolved)

ReversedFoldDiffersAtEndsWitness ==
    /\ Resolving
    /\ Len(BagsOnPath(tree, QueryPath)) = 3
    /\ \E f \in OverlayFields :
          /\ Setters(QueryPath, f) # {}
          /\ ValueAt(QueryPath, Smallest(Setters(QueryPath, f)), f)
                # ValueAt(QueryPath, Largest(Setters(QueryPath, f)), f)
    /\ ResolvedInReverse # Resolved

\* C7: Config::new() has every field absent, and a field that no bag
\* registered at a prefix of p sets is absent in resolve(p); so the empty
\* path and a path with no bags along it resolve to the all-absent Config.
AbsencePreserved ==
    /\ \A f \in Fields : New[f] = None
    /\ Resolving =>
          /\ \A f \in Fields : Setters(QueryPath, f) = {} => Resolved[f] = None
          /\ BagsOnPath(tree, QueryPath) = <<>> => Resolved = New

AbsencePreservedWitness ==
    /\ Resolving
    /\ BagsOnPath(tree, QueryPath) # <<>>
    /\ \E f, g \in Fields :
          /\ Setters(QueryPath, f) = {} /\ Resolved[f] = None
          /\ Setters(QueryPath, g) # {} /\ IsSome(Resolved[g])

\* C8: the bag stored at a path is exactly the bag of the latest insert at
\* that path, with no field left over from an earlier insert there, and an
\* insert leaves the bags stored at the other paths as they were.
InsertLastWriteWins ==
    /\ \A p \in ElementPaths : StoredAt(tree, p) = registered[p]
    /\ Inserting =>
          \A f \in Unwrap(call).dropped :
              Unwrap(StoredAt(tree, QueryPath))[f] = None

InsertLastWriteWinsWitness ==
    /\ Inserting
    /\ Unwrap(call).dropped # {}
    /\ \E p \in ElementPaths : p # QueryPath /\ IsSome(StoredAt(tree, p))

(***************************************************************************)
(* Properties of the typed accessors, checked under SpecParse.             *)
(***************************************************************************)
Failed(e) == [kind |-> "error", value |-> <<e>>]

Called(fn) == IsSome(outcome) /\ Unwrap(outcome).fn = fn

Result == Unwrap(outcome).result

\* C9: custom_field_parsed on a Config with no custom_field fails with the
\* MissingCustomField error; it neither returns a descriptor nor ends in an
\* unimplemented state.
MissingCustomFieldIsError ==
    (Called("custom_field_parsed") /\ conf["custom_field"] = None) =>
        Result = Failed("MissingCustomField")

\* the parser the accessor of field f applies to the field's raw value
TargetParse(f, v) ==
    IF f \in {"field_attributes", "type_attributes", "hazzer_attributes"}
    THEN ParseTokenStream(v)
    ELSE IF f = "rename_field" THEN ParseIdent(v)
    ELSE IF f = "custom_field"
         THEN (IF v.variant = "Type" THEN ParseType(v.raw) ELSE ParseIdent(v.raw))
    ELSE ParsePath(v)

Malformed(c, f) == IsSome(c[f]) /\ ~TargetParse(f, Unwrap(c[f])).ok

\* C10: a syntactically invalid raw string is accepted by the setter and
\* stored verbatim; the typed conversion of that field, and only that one,
\* fails, with a MalformedOverride error returned as a tagged result.
MalformedOverrideIsTaggedResult ==
    IsSome(outcome) =>
        /\ Malformed(conf, Unwrap(outcome).field) =>
              Result = Failed("MalformedOverride")
        /\ (~Malformed(conf, Unwrap(outcome).field)
            /\ IsSome(conf[Unwrap(outcome).field])) =>
              Result.kind = "returned"

====
